---- MODULE Spec2Model ----
(***************************************************************************)
(* xt_expr: the micro-expression block of extensions/xt_expr.h and its      *)
(* evaluator, admission and teardown in extensions/xt_expr.c.               *)
(*                                                                         *)
(* A block is a sequence of nodes [op, lh, rh], indexed from 1 (the C       *)
(* pointer mx + k is index i + k).  Words are uintxp_t values; the word is  *)
(* XP_BYTES bytes of ByteBits bits each, so that the arithmetic wraps as in *)
(* C at a width small enough to enumerate.                                  *)
(***************************************************************************)
EXTENDS Integers, Sequences, FiniteSets, TLC

\* ------------------------------------------------------------------ bounds
\* Bits per byte of the modelled machine word (8 in the real build).
ByteBits == 2
\* Largest number of nodes in a block handed to the match.
MaxItems == 3

\* --------------------------------------------------------------- xt_expr.h
\* uintxp_t is uint32_t: four bytes.
XP_BYTES == 4
XP_BITS == XP_BYTES * ByteBits
XP_MOD == 2 ^ XP_BITS
XP_MAX == XP_MOD - 1
Word == 0 .. XP_MAX
ByteMod == 2 ^ ByteBits

XTEXPR_OP_NONE == 0
XTEXPR_OP_ADD == 1
XTEXPR_OP_SUB == 2
XTEXPR_OP_MUL == 3
XTEXPR_OP_DIV == 4
XTEXPR_OP_MOD == 5
XTEXPR_OP_NEG == 6
XTEXPR_OP_LT == 7
XTEXPR_OP_LE == 8
XTEXPR_OP_EQ == 9
XTEXPR_OP_NE == 10
XTEXPR_OP_GT == 11
XTEXPR_OP_GE == 12
XTEXPR_OP_LNOT == 13
XTEXPR_OP_LAND == 14
XTEXPR_OP_LOR == 15
XTEXPR_OP_SHL == 16
XTEXPR_OP_SHR == 17
XTEXPR_OP_NOT == 18
XTEXPR_OP_AND == 19
XTEXPR_OP_OR == 20
XTEXPR_OP_XOR == 21
XTEXPR_OP_ASG == 22
XTEXPR_OP_OFS == 23
XTEXPR_OP_DEREF == 24
XTEXPR_OP_IF == 25
XTEXPR_OP_CASE == 26
XTEXPR_OPMASK == 255
XTEXPR_LHIMM == 64
XTEXPR_RHIMM == 128

XTEXPR_TYPE_NONE == 0
XTEXPR_TYPE_SUB == 1
XTEXPR_TYPE_THIS == 2
XTEXPR_TYPE_NFMARK == 3
XTEXPR_TYPE_CTMARK == 4
XTEXPR_TYPE_L3PROTO == 7

\* errno values returned by the admission step.
ENOMEM == 12
EFAULT == 14

\* ------------------------------------------------------- C integer helpers
RECURSIVE BitAnd(_, _, _)
BitAnd(a, b, n) ==
    IF n = 0 THEN 0
    ELSE (a % 2) * (b % 2) + 2 * BitAnd(a \div 2, b \div 2, n - 1)

RECURSIVE BitOr(_, _, _)
BitOr(a, b, n) ==
    IF n = 0 THEN 0
    ELSE (IF a % 2 = 1 \/ b % 2 = 1 THEN 1 ELSE 0)
         + 2 * BitOr(a \div 2, b \div 2, n - 1)

RECURSIVE BitXor(_, _, _)
BitXor(a, b, n) ==
    IF n = 0 THEN 0
    ELSE ((a + b) % 2) + 2 * BitXor(a \div 2, b \div 2, n - 1)

\* x & flag # 0 for a single-bit flag (a power of two).
TestBit(x, flag) == (x \div flag) % 2 = 1

\* x & mask for a mask of the form 2^k - 1.
LowBits(x, mask) == x % (mask + 1)

\* C truth value of a comparison or logical operator.
CBool(b) == IF b THEN 1 ELSE 0

\* Byte k (0 = least significant) of a word.
ByteOf(x, k) == (x \div (ByteMod ^ k)) % ByteMod

\* ntohl() on a little-endian build: the four bytes of the word reversed.
ntohl(x) ==
    ByteOf(x, 0) * ByteMod ^ 3 + ByteOf(x, 1) * ByteMod ^ 2
    + ByteOf(x, 2) * ByteMod + ByteOf(x, 3)

\* ---------------------------------------------------------------- evaluator
\* xt_expr_rvalue(): the value of register reg for packet skb.  skb.ct is
\* the empty sequence when the packet has no conntrack entry.
xt_expr_rvalue(skb, reg) ==
    CASE reg = XTEXPR_TYPE_NFMARK -> skb.mark
      [] reg = XTEXPR_TYPE_CTMARK -> IF skb.ct # <<>> THEN skb.ct[1] ELSE 0
      [] reg = XTEXPR_TYPE_L3PROTO -> ntohl(skb.protocol)
      [] OTHER -> 0

\* The switch with LNOT written as the bitwise complement (~lh for !lh).
OpSwitch_BitwiseLnot(op, lh, rh) ==
    LET o == LowBits(op, XTEXPR_OPMASK) IN
    CASE o = XTEXPR_OP_NONE -> lh
      [] o = XTEXPR_OP_ADD -> (lh + rh) % XP_MOD
      [] o = XTEXPR_OP_SUB -> (lh - rh) % XP_MOD
      [] o = XTEXPR_OP_MUL -> (lh * rh) % XP_MOD
      [] o = XTEXPR_OP_DIV -> IF rh = 0 THEN 0 ELSE lh \div rh
      [] o = XTEXPR_OP_MOD -> IF rh = 0 THEN 0 ELSE lh % rh
      [] o = XTEXPR_OP_NEG -> (0 - lh) % XP_MOD
      [] o = XTEXPR_OP_LT -> CBool(lh < rh)
      [] o = XTEXPR_OP_LE -> CBool(lh <= rh)
      [] o = XTEXPR_OP_EQ -> CBool(lh = rh)
      [] o = XTEXPR_OP_NE -> CBool(lh # rh)
      [] o = XTEXPR_OP_GT -> CBool(lh > rh)
      [] o = XTEXPR_OP_GE -> CBool(lh >= rh)
      [] o = XTEXPR_OP_LNOT -> XP_MAX - lh
      [] o = XTEXPR_OP_LAND -> CBool(lh # 0 /\ rh # 0)
      [] o = XTEXPR_OP_LOR -> CBool(lh # 0 \/ rh # 0)
      [] o = XTEXPR_OP_SHL -> IF rh >= XP_BITS THEN 0 ELSE (lh * 2 ^ rh) % XP_MOD
      [] o = XTEXPR_OP_SHR -> IF rh >= XP_BITS THEN 0 ELSE lh \div (2 ^ rh)
      [] o = XTEXPR_OP_NOT -> XP_MAX - lh
      [] o = XTEXPR_OP_AND -> BitAnd(lh, rh, XP_BITS)
      [] o = XTEXPR_OP_OR -> BitOr(lh, rh, XP_BITS)
      [] o = XTEXPR_OP_XOR -> BitXor(lh, rh, XP_BITS)
      [] OTHER -> 0

\* The switch of xt_expr_descend(): the value computed from the op byte and
\* the two resolved operands.  Division by zero and an over-wide shift are
\* undefined in C; OpFault names them and the value here is then unused.
OpSwitch(op, lh, rh) ==
    LET o == LowBits(op, XTEXPR_OPMASK) IN
    CASE o = XTEXPR_OP_NONE -> lh
      [] o = XTEXPR_OP_ADD -> (lh + rh) % XP_MOD
      [] o = XTEXPR_OP_SUB -> (lh - rh) % XP_MOD
      [] o = XTEXPR_OP_MUL -> (lh * rh) % XP_MOD
      [] o = XTEXPR_OP_DIV -> IF rh = 0 THEN 0 ELSE lh \div rh
      [] o = XTEXPR_OP_MOD -> IF rh = 0 THEN 0 ELSE lh % rh
      [] o = XTEXPR_OP_NEG -> (0 - lh) % XP_MOD
      [] o = XTEXPR_OP_LT -> CBool(lh < rh)
      [] o = XTEXPR_OP_LE -> CBool(lh <= rh)
      [] o = XTEXPR_OP_EQ -> CBool(lh = rh)
      [] o = XTEXPR_OP_NE -> CBool(lh # rh)
      [] o = XTEXPR_OP_GT -> CBool(lh > rh)
      [] o = XTEXPR_OP_GE -> CBool(lh >= rh)
      [] o = XTEXPR_OP_LNOT -> CBool(lh = 0)
      [] o = XTEXPR_OP_LAND -> CBool(lh # 0 /\ rh # 0)
      [] o = XTEXPR_OP_LOR -> CBool(lh # 0 \/ rh # 0)
      [] o = XTEXPR_OP_SHL -> IF rh >= XP_BITS THEN 0 ELSE (lh * 2 ^ rh) % XP_MOD
      [] o = XTEXPR_OP_SHR -> IF rh >= XP_BITS THEN 0 ELSE lh \div (2 ^ rh)
      [] o = XTEXPR_OP_NOT -> XP_MAX - lh
      [] o = XTEXPR_OP_AND -> BitAnd(lh, rh, XP_BITS)
      [] o = XTEXPR_OP_OR -> BitOr(lh, rh, XP_BITS)
      [] o = XTEXPR_OP_XOR -> BitXor(lh, rh, XP_BITS)
      [] OTHER -> 0

\* The undefined behaviour the switch can run into, "none" when it cannot.
OpFault(op, lh, rh) ==
    LET o == LowBits(op, XTEXPR_OPMASK) IN
    IF o \in {XTEXPR_OP_DIV, XTEXPR_OP_MOD} /\ rh = 0 THEN "div0"
    ELSE IF o \in {XTEXPR_OP_SHL, XTEXPR_OP_SHR} /\ rh >= XP_BITS THEN "shift"
    ELSE "none"

\* An operand that consumed no node: its value and the unchanged cursor.
Operand(v, next) ==
    [ret |-> v, next |-> next, trace |-> <<>>, fault |-> "none"]

\* The first undefined behaviour met, in evaluation order.
FirstFault(a, b, c) ==
    IF a # "none" THEN a ELSE IF b # "none" THEN b ELSE c

\* The evaluator with LAND and LOR short-circuiting: the RH operand is not
\* resolved when the LH value already decides the result.
RECURSIVE xt_expr_descend_lazy(_, _, _)
xt_expr_descend_lazy(skb, blk, i) ==
    IF i > Len(blk)
    THEN [ret |-> 0, next |-> i, trace |-> <<i>>, fault |-> "oob",
          lh |-> 0, rh |-> 0]
    ELSE
    LET mx == blk[i]
        next0 == i + 1
        L == IF TestBit(mx.op, XTEXPR_LHIMM)
             THEN Operand(mx.lh, next0)
             ELSE IF mx.lh = XTEXPR_TYPE_SUB
             THEN xt_expr_descend_lazy(skb, blk, next0)
             ELSE Operand(xt_expr_rvalue(skb, mx.rh), next0)
        o == LowBits(mx.op, XTEXPR_OPMASK)
        skip == \/ o = XTEXPR_OP_LAND /\ L.ret = 0
                \/ o = XTEXPR_OP_LOR /\ L.ret # 0
        R == IF TestBit(mx.op, XTEXPR_RHIMM)
             THEN Operand(mx.rh, L.next)
             ELSE IF skip
             THEN Operand(0, L.next)
             ELSE IF mx.rh = XTEXPR_TYPE_SUB
             THEN xt_expr_descend_lazy(skb, blk, L.next)
             ELSE Operand(xt_expr_rvalue(skb, mx.rh), L.next)
    IN  IF L.fault = "oob"
        THEN [ret |-> 0, next |-> L.next, trace |-> <<i>> \o L.trace,
              fault |-> "oob", lh |-> 0, rh |-> 0]
        ELSE IF R.fault = "oob"
        THEN [ret |-> 0, next |-> R.next, trace |-> <<i>> \o L.trace \o R.trace,
              fault |-> "oob", lh |-> L.ret, rh |-> 0]
        ELSE [ret |-> OpSwitch(mx.op, L.ret, R.ret),
              next |-> R.next,
              trace |-> <<i>> \o L.trace \o R.trace,
              fault |-> FirstFault(L.fault, R.fault, OpFault(mx.op, L.ret, R.ret)),
              lh |-> L.ret, rh |-> R.ret]

\* The evaluator with the RH subexpression read from mx + 1 again instead of
\* from where the LH subexpression ended.
RECURSIVE xt_expr_descend_restart(_, _, _)
xt_expr_descend_restart(skb, blk, i) ==
    IF i > Len(blk)
    THEN [ret |-> 0, next |-> i, trace |-> <<i>>, fault |-> "oob",
          lh |-> 0, rh |-> 0]
    ELSE
    LET mx == blk[i]
        next0 == i + 1
        L == IF TestBit(mx.op, XTEXPR_LHIMM)
             THEN Operand(mx.lh, next0)
             ELSE IF mx.lh = XTEXPR_TYPE_SUB
             THEN xt_expr_descend_restart(skb, blk, next0)
             ELSE Operand(xt_expr_rvalue(skb, mx.rh), next0)
        R == IF TestBit(mx.op, XTEXPR_RHIMM)
             THEN Operand(mx.rh, L.next)
             ELSE IF mx.rh = XTEXPR_TYPE_SUB
             THEN xt_expr_descend_restart(skb, blk, next0)
             ELSE Operand(xt_expr_rvalue(skb, mx.rh), L.next)
    IN  IF L.fault = "oob"
        THEN [ret |-> 0, next |-> L.next, trace |-> <<i>> \o L.trace,
              fault |-> "oob", lh |-> 0, rh |-> 0]
        ELSE IF R.fault = "oob"
        THEN [ret |-> 0, next |-> R.next, trace |-> <<i>> \o L.trace \o R.trace,
              fault |-> "oob", lh |-> L.ret, rh |-> 0]
        ELSE [ret |-> OpSwitch(mx.op, L.ret, R.ret),
              next |-> R.next,
              trace |-> <<i>> \o L.trace \o R.trace,
              fault |-> FirstFault(L.fault, R.fault, OpFault(mx.op, L.ret, R.ret)),
              lh |-> L.ret, rh |-> R.ret]

\* xt_expr_descend(skb, &blk[i], &ret): ret is *retp, next the returned
\* pointer, trace the nodes read in the order they were read, lh and rh the
\* two locals.  Reading a node past the end of the block is an out-of-bounds
\* read ("oob") and ends the walk: what lies there is not a node of the
\* block.  After a "div0" or "shift" fault the values are meaningless (ret is
\* then a placeholder) while the pointer walk, which reads no value, goes on
\* as it does on a build where the operation does not trap.
RECURSIVE xt_expr_descend(_, _, _)
xt_expr_descend(skb, blk, i) ==
    IF i > Len(blk)
    THEN [ret |-> 0, next |-> i, trace |-> <<i>>, fault |-> "oob",
          lh |-> 0, rh |-> 0]
    ELSE
    LET mx == blk[i]
        next0 == i + 1
        L == IF TestBit(mx.op, XTEXPR_LHIMM)
             THEN Operand(mx.lh, next0)
             ELSE IF mx.lh = XTEXPR_TYPE_SUB
             THEN xt_expr_descend(skb, blk, next0)
             ELSE Operand(xt_expr_rvalue(skb, mx.rh), next0)
        R == IF TestBit(mx.op, XTEXPR_RHIMM)
             THEN Operand(mx.rh, L.next)
             ELSE IF mx.rh = XTEXPR_TYPE_SUB
             THEN xt_expr_descend(skb, blk, L.next)
             ELSE Operand(xt_expr_rvalue(skb, mx.rh), L.next)
    IN  IF L.fault = "oob"
        THEN [ret |-> 0, next |-> L.next, trace |-> <<i>> \o L.trace,
              fault |-> "oob", lh |-> 0, rh |-> 0]
        ELSE IF R.fault = "oob"
        THEN [ret |-> 0, next |-> R.next, trace |-> <<i>> \o L.trace \o R.trace,
              fault |-> "oob", lh |-> L.ret, rh |-> 0]
        ELSE [ret |-> OpSwitch(mx.op, L.ret, R.ret),
              next |-> R.next,
              trace |-> <<i>> \o L.trace \o R.trace,
              fault |-> FirstFault(L.fault, R.fault, OpFault(mx.op, L.ret, R.ret)),
              lh |-> L.ret, rh |-> R.ret]

\* -------------------------------------------------------------------- state
VARIABLES
    items,    \* xi->items as supplied by userspace
    ublk,     \* the userspace array xi->blk points to before admission
    kblk,     \* the vmalloc'ed copy xi->blk points to after admission
    phase,    \* "new", "checked", "rejected", "destroyed", "oops"
    err,      \* return value of xt_expr_mtcheck (0 or a negated errno)
    skb,      \* the packet of the last xt_expr_mt call, <<>> before any
    ev,       \* the outcome of xt_expr_descend in the last xt_expr_mt call
    verdict   \* the bool returned by the last xt_expr_mt call

vars == <<items, ublk, kblk, phase, err, skb, ev, verdict>>

NoEval == [ret |-> 0, next |-> 0, trace |-> <<>>, fault |-> "none",
           lh |-> 0, rh |-> 0]

\* ------------------------------------------------------------------- inputs
OpCodes == XTEXPR_OP_NONE .. XTEXPR_OP_CASE
FlagSets == {0, XTEXPR_LHIMM, XTEXPR_RHIMM, XTEXPR_LHIMM + XTEXPR_RHIMM}
OpBytes == {o + f : o \in OpCodes, f \in FlagSets}
SlotVals == {XTEXPR_TYPE_NONE, XTEXPR_TYPE_SUB, XTEXPR_TYPE_THIS,
             XTEXPR_TYPE_NFMARK, XTEXPR_TYPE_CTMARK, XTEXPR_TYPE_L3PROTO}

Node(op, lh, rh) == [op |-> op, lh |-> lh, rh |-> rh]
IMM2 == XTEXPR_LHIMM + XTEXPR_RHIMM

\* Every one-node block over the full op byte and slot domains.
SingleNodes == {Node(o, l, r) : o \in OpBytes, l \in SlotVals, r \in SlotVals}

\* The nodes multi-node blocks are built from: the parents and leaves of the
\* header comment's examples, and leaves that yield field values.
TreeNodes ==
    { Node(XTEXPR_OP_ADD, XTEXPR_TYPE_SUB, XTEXPR_TYPE_SUB),
      Node(XTEXPR_OP_ADD + IMM2, 1, 2),
      Node(XTEXPR_OP_ADD + IMM2, 3, 4),
      Node(XTEXPR_OP_LAND, XTEXPR_TYPE_SUB, XTEXPR_TYPE_SUB),
      Node(XTEXPR_OP_LOR, XTEXPR_TYPE_NFMARK, XTEXPR_TYPE_SUB),
      Node(XTEXPR_OP_LT, XTEXPR_TYPE_SUB, XTEXPR_TYPE_SUB),
      Node(XTEXPR_OP_DIV, XTEXPR_TYPE_SUB, XTEXPR_TYPE_SUB),
      Node(XTEXPR_OP_NEG, XTEXPR_TYPE_NFMARK, XTEXPR_TYPE_SUB),
      Node(XTEXPR_OP_IF + XTEXPR_LHIMM, 1, XTEXPR_TYPE_SUB),
      Node(XTEXPR_OP_NONE, XTEXPR_TYPE_NFMARK, XTEXPR_TYPE_NFMARK) }

RECURSIVE SeqsUpTo(_, _)
SeqsUpTo(S, n) ==
    IF n = 0 THEN {<<>>}
    ELSE LET shorter == SeqsUpTo(S, n - 1) IN
         shorter \cup {Append(s, x) : s \in {t \in shorter : Len(t) = n - 1}, x \in S}

Blocks == {<<n>> : n \in SingleNodes} \cup SeqsUpTo(TreeNodes, MaxItems)

Marks == {0, 5}
CtMarks == {2}
Protos == {6}
Skbs == [mark : Marks, ct : {<<>>} \cup {<<m>> : m \in CtMarks},
         protocol : Protos]

\* What a run into undefined behaviour can leave in *retp when it returns.
Garbage == {0, XP_MAX}

\* --------------------------------------------------------------------- Init
Init ==
    /\ ublk \in Blocks
    /\ items = Len(ublk)
    /\ kblk = <<>>
    /\ phase = "new"
    /\ err = 0
    /\ skb = <<>>
    /\ ev = NoEval
    /\ verdict = FALSE

\* ------------------------------------------------------------------ actions
\* sizeof(struct xt_expr_micro): __u8 op, padding, two __u32.
SizeofMicro == 3 * XP_BYTES

\* vmalloc(z): NULL for a zero-sized request, NULL or memory otherwise.
vmalloc(z) == IF z = 0 THEN {FALSE} ELSE {FALSE, TRUE}

\* xt_expr_mtcheck(): allocate, copy the user's nodes, switch xi->blk over.
\* No node of the block is inspected.
xt_expr_mtcheck ==
    /\ phase = "new"
    /\ LET z == SizeofMicro * items IN
       \E got \in vmalloc(z), copied \in BOOLEAN :
          IF ~got
          THEN /\ phase' = "rejected"
               /\ err' = 0 - ENOMEM
               /\ kblk' = kblk
          ELSE IF ~copied
          THEN /\ phase' = "rejected"
               /\ err' = 0 - EFAULT
               /\ kblk' = kblk
          ELSE /\ phase' = "checked"
               /\ err' = 0
               /\ kblk' = SubSeq(ublk, 1, items)
    /\ UNCHANGED <<items, ublk, skb, ev, verdict>>

\* xt_expr_mt(): evaluate the block from its first node for one packet and
\* return the result as a bool.  When the walk runs into undefined behaviour
\* the call either brings the kernel down (nothing is returned) or returns
\* with some word in ret.
xt_expr_mt ==
    /\ phase = "checked"
    /\ \E s \in Skbs :
        LET r == xt_expr_descend(s, kblk, 1) IN
        /\ skb' = s
        /\ IF r.fault = "none"
           THEN /\ ev' = r
                /\ verdict' = (r.ret # 0)
                /\ phase' = phase
           ELSE \E crash \in BOOLEAN, g \in Garbage :
                IF crash
                THEN /\ ev' = [NoEval EXCEPT !.fault = r.fault]
                     /\ verdict' = FALSE
                     /\ phase' = "oops"
                ELSE /\ ev' = [r EXCEPT !.ret = g]
                     /\ verdict' = (g # 0)
                     /\ phase' = phase
    /\ UNCHANGED <<items, ublk, kblk, err>>

\* xt_expr_mtdestroy(): free the kernel copy.
xt_expr_mtdestroy ==
    /\ phase = "checked"
    /\ phase' = "destroyed"
    /\ kblk' = <<>>
    /\ UNCHANGED <<items, ublk, err, skb, ev, verdict>>

Next == xt_expr_mtcheck \/ xt_expr_mt \/ xt_expr_mtdestroy

Spec == Init /\ [][Next]_vars

TypeOK ==
    /\ phase \in {"new", "checked", "rejected", "destroyed", "oops"}
    /\ err \in {0, 0 - ENOMEM, 0 - EFAULT}
    /\ ev.ret \in Word
    /\ verdict \in BOOLEAN

\* ------------------------------------------------- reference definitions
\* The operator of an op byte: the byte without its two immediate flags.
Opcode(op) == op % XTEXPR_LHIMM

\* xt_expr_mt has returned at least once and the rule is still installed.
Called == phase = "checked" /\ skb # <<>>

\* The number of slots of node n that stand for a subexpression.
SubSlots(n) ==
    (IF (n.op \div XTEXPR_LHIMM) % 2 = 0 /\ n.lh = XTEXPR_TYPE_SUB THEN 1 ELSE 0)
    + (IF (n.op \div XTEXPR_RHIMM) % 2 = 0 /\ n.rh = XTEXPR_TYPE_SUB THEN 1 ELSE 0)

\* Preorder arity count: starting at node i with `need` subtrees still to be
\* read, the index after the last of them, or 0 when the block ends first.
RECURSIVE PreorderWalk(_, _, _)
PreorderWalk(blk, i, need) ==
    IF need = 0 THEN i
    ELSE IF i > Len(blk) THEN 0
    ELSE PreorderWalk(blk, i + 1, need - 1 + SubSlots(blk[i]))

\* The index after the subtree rooted at node i (0: the block is truncated).
SubtreeEnd(blk, i) == PreorderWalk(blk, i, 1)

\* A block is well-formed when the walk from its first node ends exactly at
\* the end of the block.
WellFormed(blk) == SubtreeEnd(blk, 1) = Len(blk) + 1

\* <<a, a + 1, ..., b - 1>>
Range(a, b) == [k \in 1 .. (b - a) |-> a + k - 1]

\* Bit k of x.
Bit(x, k) == (x \div (2 ^ k)) % 2

\* The sum of f[k] * 2^k over the bits of a word.
RECURSIVE FromBits(_, _)
FromBits(f, k) == IF k = XP_BITS THEN 0 ELSE f[k] * 2 ^ k + FromBits(f, k + 1)

\* The value of operator o on (l, r) in wrapping unsigned arithmetic of the
\* slot width, written without reference to the evaluator.
RefValue(o, l, r) ==
    LET bits == 0 .. (XP_BITS - 1)
        wrap(x) == ((x % XP_MOD) + XP_MOD) % XP_MOD
        truth(b) == IF b THEN 1 ELSE 0
    IN
    IF o = XTEXPR_OP_NONE THEN l
    ELSE IF o = XTEXPR_OP_ADD THEN wrap(l + r)
    ELSE IF o = XTEXPR_OP_SUB THEN wrap(l - r)
    ELSE IF o = XTEXPR_OP_MUL THEN wrap(l * r)
    ELSE IF o = XTEXPR_OP_DIV THEN CHOOSE q \in 0 .. l : q * r <= l /\ l < (q + 1) * r
    ELSE IF o = XTEXPR_OP_MOD THEN CHOOSE m \in 0 .. (r - 1) : \E q \in 0 .. l : l = q * r + m
    ELSE IF o = XTEXPR_OP_NEG THEN wrap(0 - l)
    ELSE IF o = XTEXPR_OP_LT THEN truth(l < r)
    ELSE IF o = XTEXPR_OP_LE THEN truth(l <= r)
    ELSE IF o = XTEXPR_OP_EQ THEN truth(l = r)
    ELSE IF o = XTEXPR_OP_NE THEN truth(l # r)
    ELSE IF o = XTEXPR_OP_GT THEN truth(l > r)
    ELSE IF o = XTEXPR_OP_GE THEN truth(l >= r)
    ELSE IF o = XTEXPR_OP_LNOT THEN truth(l = 0)
    ELSE IF o = XTEXPR_OP_LAND THEN truth(l # 0 /\ r # 0)
    ELSE IF o = XTEXPR_OP_LOR THEN truth(l # 0 \/ r # 0)
    ELSE IF o = XTEXPR_OP_SHL THEN wrap(l * 2 ^ r)
    ELSE IF o = XTEXPR_OP_SHR THEN l \div 2 ^ r
    ELSE IF o = XTEXPR_OP_NOT THEN FromBits([k \in bits |-> 1 - Bit(l, k)], 0)
    ELSE IF o = XTEXPR_OP_AND THEN FromBits([k \in bits |-> Bit(l, k) * Bit(r, k)], 0)
    ELSE IF o = XTEXPR_OP_OR
    THEN FromBits([k \in bits |-> Bit(l, k) + Bit(r, k) - Bit(l, k) * Bit(r, k)], 0)
    ELSE FromBits([k \in bits |-> (Bit(l, k) + Bit(r, k)) % 2], 0)

Implemented == XTEXPR_OP_NONE .. XTEXPR_OP_XOR
UnaryOps == {XTEXPR_OP_NONE, XTEXPR_OP_NEG, XTEXPR_OP_LNOT, XTEXPR_OP_NOT}
TruthOps == {XTEXPR_OP_LT, XTEXPR_OP_LE, XTEXPR_OP_EQ, XTEXPR_OP_NE,
             XTEXPR_OP_GT, XTEXPR_OP_GE, XTEXPR_OP_LNOT, XTEXPR_OP_LAND,
             XTEXPR_OP_LOR}

LhIsSub(n) == (n.op \div XTEXPR_LHIMM) % 2 = 0 /\ n.lh = XTEXPR_TYPE_SUB
RhIsSub(n) == (n.op \div XTEXPR_RHIMM) % 2 = 0 /\ n.rh = XTEXPR_TYPE_SUB

\* ------------------------------------------------------------------- claims

\* C8: LAND and LOR do not short-circuit.  For a LAND or LOR node at the head
\* of the block with a subexpression on either side, a call that stays inside
\* the block has read every node of the LH subtree and then every node of the
\* RH subtree, each once and in index order, and returns the cursor after
\* the RH subtree; trace and cursor are the same for every packet, that is for
\* every value the operands take.
C8_NoShortCircuit ==
    (Called /\ ev.fault # "oob" /\ Len(kblk) >= 1
       /\ Opcode(kblk[1].op) \in {XTEXPR_OP_LAND, XTEXPR_OP_LOR}
       /\ (LhIsSub(kblk[1]) \/ RhIsSub(kblk[1])))
    => /\ ev.next = SubtreeEnd(kblk, 1)
       /\ ev.trace = Range(1, ev.next)
       /\ \A s \in Skbs :
            LET r == xt_expr_descend(s, kblk, 1) IN
            r.next = ev.next /\ r.trace = ev.trace

\* C8 witness: a LAND over two subexpressions whose left value is 0 and whose
\* right subtree was read all the same.
C8_Witness ==
    /\ Called /\ ev.fault = "none" /\ Len(kblk) = 3
    /\ kblk[1] = Node(XTEXPR_OP_LAND, XTEXPR_TYPE_SUB, XTEXPR_TYPE_SUB)
    /\ ev.lh = 0 /\ ev.rh # 0 /\ ev.ret = 0
    /\ ev.trace = <<1, 2, 3>> /\ ev.next = 4

\* C9: a node whose operator is a comparison or a logical operator stores
\* exactly 0 or 1, whatever its operands resolved to (immediates, fields or
\* subexpression results), whenever its evaluation is defined.
C9_TruthValues ==
    Called =>
      /\ (Len(kblk) >= 1 /\ Opcode(kblk[1].op) \in TruthOps /\ ev.fault = "none")
            => ev.ret \in {0, 1}
      /\ \A i \in 1 .. Len(kblk) :
            LET r == xt_expr_descend(skb, kblk, i) IN
            (Opcode(kblk[i].op) \in TruthOps /\ r.fault = "none")
                => r.ret \in {0, 1}

\* C9 witness: a comparison of two different subexpression results that
\* stored 1.
C9_Witness ==
    /\ Called /\ ev.fault = "none" /\ Len(kblk) = 3
    /\ kblk[1] = Node(XTEXPR_OP_LT, XTEXPR_TYPE_SUB, XTEXPR_TYPE_SUB)
    /\ ev.lh < ev.rh /\ ev.rh > 1 /\ ev.ret = 1

\* C10: single forward cursor.  A call on node i that stays inside the block
\* returns i + 1 + (size of the LH subtree, if LH is a subexpression slot)
\* + (size of the RH subtree, if RH is one), whatever the operators and the
\* packet; and on a well-formed block of n nodes the top-level call never
\* reads past node n, reads nodes 1..n once each in increasing order and
\* returns the cursor n + 1.
C10_ForwardCursor ==
    Called =>
      /\ \A i \in 1 .. Len(kblk) : \A s \in Skbs :
            LET r == xt_expr_descend(s, kblk, i)
                lsz == IF LhIsSub(kblk[i])
                       THEN SubtreeEnd(kblk, i + 1) - (i + 1) ELSE 0
                rsz == IF RhIsSub(kblk[i])
                       THEN SubtreeEnd(kblk, i + 1 + lsz) - (i + 1 + lsz) ELSE 0
            IN  r.fault # "oob" => r.next = i + 1 + lsz + rsz
      /\ WellFormed(kblk) =>
            /\ ev.fault # "oob"
            /\ ev.trace = Range(1, items + 1)
            /\ ev.next = items + 1

\* C10 witness: a well-formed three-node block whose head is a unary operator
\* with a subexpression in its RH slot, walked to its end.
C10_Witness ==
    /\ Called /\ ev.fault = "none" /\ items = 3 /\ WellFormed(kblk)
    /\ kblk[1] = Node(XTEXPR_OP_NEG, XTEXPR_TYPE_NFMARK, XTEXPR_TYPE_SUB)
    /\ kblk[2] = Node(XTEXPR_OP_LOR, XTEXPR_TYPE_NFMARK, XTEXPR_TYPE_SUB)
    /\ ev.trace = <<1, 2, 3>> /\ ev.next = 4

\* The two flags of a node.
LhImm(n) == (n.op \div XTEXPR_LHIMM) % 2 = 1
RhImm(n) == (n.op \div XTEXPR_RHIMM) % 2 = 1

\* C1: a well-formed block whose operands are all immediates is one node
\* with both flags set; for every implemented operator (DIV and MOD with a
\* nonzero divisor, shifts by less than the slot width) the call stores the
\* reference value of that operator on (lh, rh).  {ADD|LHIMM|RHIMM, 4, 2}
\* stores 6.
C1_ImmediateValue ==
    (Called /\ items = 1 /\ LhImm(kblk[1]) /\ RhImm(kblk[1])
       /\ Opcode(kblk[1].op) \in Implemented
       /\ (Opcode(kblk[1].op) \in {XTEXPR_OP_DIV, XTEXPR_OP_MOD} => kblk[1].rh # 0)
       /\ (Opcode(kblk[1].op) \in {XTEXPR_OP_SHL, XTEXPR_OP_SHR}
             => kblk[1].rh < XP_BITS))
    => /\ ev.fault = "none"
       /\ ev.ret = RefValue(Opcode(kblk[1].op), kblk[1].lh, kblk[1].rh)

\* C2: an operand slot whose immediate flag is clear and whose value is not
\* XTEXPR_TYPE_SUB is resolved to the context field that same slot names:
\* lh to the field lh, rh to the field rh.  {SUB, NFMARK, CTMARK} stores
\* packet mark minus connection mark.
C2_FieldOfSameSlot ==
    (Called /\ items >= 1 /\ ev.fault = "none")
    => /\ (~LhImm(kblk[1]) /\ kblk[1].lh # XTEXPR_TYPE_SUB)
            => ev.lh = xt_expr_rvalue(skb, kblk[1].lh)
       /\ (~RhImm(kblk[1]) /\ kblk[1].rh # XTEXPR_TYPE_SUB)
            => ev.rh = xt_expr_rvalue(skb, kblk[1].rh)
       /\ kblk = <<Node(XTEXPR_OP_SUB, XTEXPR_TYPE_NFMARK, XTEXPR_TYPE_CTMARK)>>
            => ev.ret = (skb.mark - xt_expr_rvalue(skb, XTEXPR_TYPE_CTMARK)
                         + XP_MOD) % XP_MOD

\* The block of the header comment for (1+2)+(3+4).
SumOfSums ==
    << Node(XTEXPR_OP_ADD, XTEXPR_TYPE_SUB, XTEXPR_TYPE_SUB),
       Node(XTEXPR_OP_ADD + IMM2, 1, 2),
       Node(XTEXPR_OP_ADD + IMM2, 3, 4) >>

\* C3: a node with a subexpression on both sides stores its operator applied
\* to the value of the subtree that starts at the next node and the value of
\* the subtree that starts right after the left one.  The block SumOfSums
\* stores 10.
C3_BothSubexpressions ==
    (Called /\ items >= 1 /\ ev.fault = "none"
       /\ LhIsSub(kblk[1]) /\ RhIsSub(kblk[1])
       /\ Opcode(kblk[1].op) \in Implemented)
    => /\ LET l == xt_expr_descend(skb, kblk, 2)
              r == xt_expr_descend(skb, kblk, l.next)
          IN  ev.ret = RefValue(Opcode(kblk[1].op), l.ret, r.ret)
       /\ kblk = SumOfSums => ev.ret = 10

\* C4: admission refuses every malformed block (truncated, empty, or with
\* trailing nodes), so the match never runs on one.
C4_AdmissionRejectsMalformed ==
    /\ phase = "checked" => WellFormed(kblk)
    /\ skb # <<>> => WellFormed(SubSeq(ublk, 1, items))

\* C5: a DIV or MOD whose right-hand operand resolved to 0 yields a defined
\* result for the match call: the call neither runs into the undefined
\* division nor brings the kernel down.
C5_DivisionByZeroDefined ==
    ev.fault # "div0"

\* C6: the two-node block {IF, cond, SUB}{ELSE, t, f} stores t when cond is
\* nonzero and f when it is zero, the second node being read as the right
\* subtree of the first.  xt_expr.h defines no ELSE operator, so the second
\* node is any node with two immediates.
C6_Ternary ==
    (Called /\ items = 2 /\ ev.fault = "none"
       /\ Opcode(kblk[1].op) = XTEXPR_OP_IF /\ RhIsSub(kblk[1]) /\ ~LhIsSub(kblk[1])
       /\ LhImm(kblk[2]) /\ RhImm(kblk[2]))
    => /\ ev.trace = <<1, 2>> /\ ev.next = 3
       /\ ev.ret = IF ev.lh # 0 THEN kblk[2].lh ELSE kblk[2].rh

\* C7: a unary operator ignores its RH slot: with the operator, the LH slot
\* and the LHIMM flag fixed, the stored result and the returned cursor are
\* the same for every RH slot value and either setting of RHIMM.
C7_UnaryIgnoresRh ==
    (Called /\ items >= 1 /\ Opcode(kblk[1].op) \in UnaryOps)
    => \A v \in SlotVals : \A f \in BOOLEAN :
          LET n == kblk[1]
              op2 == Opcode(n.op) + (IF LhImm(n) THEN XTEXPR_LHIMM ELSE 0)
                     + (IF f THEN XTEXPR_RHIMM ELSE 0)
              blk2 == [kblk EXCEPT ![1] = Node(op2, n.lh, v)]
              r == xt_expr_descend(skb, blk2, 1)
          IN  (ev.fault = "none" /\ r.fault = "none")
                  => r.ret = ev.ret /\ r.next = ev.next
====
